---- MODULE Spec2Model ----
(***************************************************************************)
(* chain-balance.py: balance report for one Taproot Asset, identified by   *)
(* an asset id (64 hex characters) or a group key (66 hex characters).     *)
(* The script lists the node's assets with tapcli and its channels with    *)
(* lncli, sums the matching amounts and prints the totals.                 *)
(*                                                                         *)
(* JSON values are modelled as follows.  A key that may be missing from an *)
(* object is a sequence of length 0 (missing, dict.get returns its         *)
(* default) or 1 (the value).  Hex strings are short tokens whose length   *)
(* is given by StrLen.  The text the script prints is the sequence stdout  *)
(* of <<text, number>> lines (standard output and standard error taken     *)
(* together).  The model starts after the argument count check of lines    *)
(* 156-159 has passed.  Within one run each external tool answers every    *)
(* successful call with the same document; amounts are the non-negative    *)
(* decimal strings the tools emit.                                         *)
(***************************************************************************)
EXTENDS Integers, Sequences, FiniteSets, TLC

VARIABLES
    identifier,            \* sys.argv[1]
    registry,              \* "assets" of the document tapcli assets list returns
    channels,              \* "channels" of the document lncli listchannels returns
    pc,                    \* position of the script
    data,                  \* document decoded by run_command, being scanned
    id_type,               \* "asset_id" / "group_key" ("" before classification)
    asset_ids,             \* list of asset ids to aggregate
    k,                     \* main loop of line 189: index into asset_ids
    j,                     \* loop of line 43: index into the registry
    fn_total_balance,      \* total_balance local to get_onchain_balance
    simple_balance,        \* on-chain accumulator of the main program
    c,                     \* loop of line 86: index into channels
    e,                     \* loop of line 93: index into the channel's assets
    total_capacity,        \* off-chain accumulators
    total_local_balance,
    total_remote_balance,
    total_balance,         \* combined total of line 209
    stdout,                \* lines printed so far
    exit_status,           \* -1 while running, then 0 or 1
    registry_calls,        \* tapcli invocations so far
    channel_calls,         \* lncli invocations so far
    last_call              \* outcome of the latest external command

vars == <<identifier, registry, channels, pc, data, id_type, asset_ids, k, j,
          fn_total_balance, simple_balance, c, e, total_capacity,
          total_local_balance, total_remote_balance, total_balance, stdout,
          exit_status, registry_calls, channel_calls, last_call>>

-----------------------------------------------------------------------------
(* Bounds of the explored inputs *)

\* registry records returned by tapcli
MaxAssets == 2
\* channels returned by lncli
MaxChannels == 2
\* embedded asset entries in the whole channel listing
MaxEntries == 2

-----------------------------------------------------------------------------
(* Input documents *)

AssetIdLen == 64
GroupKeyLen == 66

\* len() of the strings the tokens stand for
StrLen(s) ==
    CASE s \in {"A", "B"} -> AssetIdLen
      [] s \in {"G", "H"} -> GroupKeyLen
      [] OTHER -> 10

Identifiers == {"A", "B", "G", "H", "X"}

Group(raw, tweaked) ==
    [kind |-> "object", raw_group_key |-> raw, tweaked_group_key |-> tweaked]
\* the record has no "asset_group" key
NoGroup == [kind |-> "absent", raw_group_key |-> <<>>, tweaked_group_key |-> <<>>]
\* "asset_group": null
NullGroup == [kind |-> "null", raw_group_key |-> <<>>, tweaked_group_key |-> <<>>]

Asset(asset_id, asset_group, amount, local) ==
    [asset_id |-> asset_id, asset_group |-> asset_group, amount |-> amount,
     script_key_is_local |-> local]

AssetRecords ==
    { Asset(<<a>>, g, <<2>>, <<l>>) :
        a \in {"A", "B"},
        g \in {Group(<<"G">>, <<>>), Group(<<>>, <<"G">>)},
        l \in BOOLEAN }
    \cup
    { Asset(<<"A">>, NoGroup, <<3>>, <<TRUE>>),
      Asset(<<"A">>, NullGroup, <<3>>, <<TRUE>>),
      Asset(<<>>, Group(<<"G">>, <<>>), <<2>>, <<TRUE>>),
      Asset(<<"B">>, Group(<<"H">>, <<"H">>), <<2>>, <<TRUE>>),
      Asset(<<"A">>, Group(<<"G">>, <<>>), <<>>, <<TRUE>>),
      Asset(<<"A">>, Group(<<"G">>, <<>>), <<5>>, <<>>),
      Asset(<<"B">>, Group(<<"A">>, <<>>), <<1>>, <<TRUE>>) }

Registries == UNION { [1..n -> AssetRecords] : n \in 0..MaxAssets }

FewRegistries ==
    { << Asset(<<"A">>, Group(<<"G">>, <<>>), <<2>>, <<TRUE>>),
         Asset(<<"B">>, Group(<<>>, <<"G">>), <<2>>, <<TRUE>>) >>,
      << Asset(<<"A">>, NullGroup, <<3>>, <<TRUE>>) >> }

Entry(asset_id, capacity, local_balance, remote_balance) ==
    [asset_id |-> asset_id, capacity |-> capacity,
     local_balance |-> local_balance, remote_balance |-> remote_balance]

AssetEntries ==
    { Entry(<<"A">>, <<5>>, <<3>>, <<2>>),
      Entry(<<"B">>, <<4>>, <<1>>, <<3>>),
      Entry(<<>>, <<5>>, <<3>>, <<2>>),
      Entry(<<"A">>, <<>>, <<>>, <<>>),
      Entry(<<"A">>, <<7>>, <<>>, <<7>>) }

\* a channel without custom_channel_data
PlainChannel == [custom_channel_data |-> <<>>]
AssetChannel(entries) == [custom_channel_data |-> <<[assets |-> entries]>>]

EntryCount(channel) ==
    IF channel.custom_channel_data = <<>> THEN 0
    ELSE Len(channel.custom_channel_data[1].assets)

EntrySeqs(n) == UNION { [1..m -> AssetEntries] : m \in 0..n }

RECURSIVE ListingsOf(_, _)
ListingsOf(nch, nent) ==
    IF nch = 0 THEN { <<>> }
    ELSE { <<>> } \cup
         UNION { { <<ch>> \o rest : rest \in ListingsOf(nch - 1, nent - EntryCount(ch)) } :
                 ch \in {PlainChannel} \cup { AssetChannel(es) : es \in EntrySeqs(nent) } }

Listings == ListingsOf(MaxChannels, MaxEntries)

FewListings ==
    { <<>>,
      << PlainChannel,
         AssetChannel(<< Entry(<<"A">>, <<5>>, <<3>>, <<2>>),
                         Entry(<<"B">>, <<4>>, <<1>>, <<3>>) >>) >> }

Outcomes == {"ok", "nonzero_exit", "bad_json"}

-----------------------------------------------------------------------------
(* Helpers of the script *)

Line(text, value) == <<text, value>>

\* run_command with except clauses that return an empty document instead of
\* exiting
RunCommand_Swallow(outcome, document) ==
    IF outcome = "ok"
    THEN [returned |-> TRUE, data |-> document, printed |-> <<>>]
    ELSE [returned |-> TRUE, data |-> <<>>, printed |-> <<>>]

\* run_command: the decoded document, or a diagnostic and sys.exit(1)
RunCommand(outcome, document) ==
    IF outcome = "ok"
    THEN [returned |-> TRUE, data |-> document, printed |-> <<>>]
    ELSE IF outcome = "nonzero_exit"
    THEN [returned |-> FALSE, data |-> <<>>,
          printed |-> << Line("Error running command", 0) >>]
    ELSE [returned |-> FALSE, data |-> <<>>,
          printed |-> << Line("Error parsing JSON output", 0) >>]

\* int(obj.get(key, 0))
IntField(field) == IF field = <<>> THEN 0 ELSE field[1]

\* asset.get("script_key_is_local", True)
IsLocal_DefaultTrue(asset) ==
    IF asset.script_key_is_local = <<>> THEN TRUE ELSE asset.script_key_is_local[1]

\* asset.get("script_key_is_local", False)
IsLocal(asset) ==
    IF asset.script_key_is_local = <<>> THEN FALSE ELSE asset.script_key_is_local[1]

\* the condition of lines 51-55
OnchainMatches(asset, ident) ==
    /\ IsLocal(asset)
    /\ \/ asset.asset_id = <<ident>>
       \/ asset.asset_group.raw_group_key = <<ident>>
       \/ asset.asset_group.tweaked_group_key = <<ident>>

\* line 144 comparing the raw group key only
GroupMatches_RawOnly(asset_group, group_key) ==
    asset_group.raw_group_key = <<group_key>>

\* the condition of line 144
GroupMatches(asset_group, group_key) ==
    \/ asset_group.raw_group_key = <<group_key>>
    \/ asset_group.tweaked_group_key = <<group_key>>

\* the loop of list_assets over the decoded registry
RECURSIVE ListAssets(_, _)
ListAssets(assets, group_key) ==
    IF assets = <<>> THEN <<>>
    ELSE LET asset == Head(assets)
             hit == /\ asset.asset_group.kind = "object"
                    /\ GroupMatches(asset.asset_group, group_key)
                    /\ asset.asset_id # <<>>
         IN (IF hit THEN << asset.asset_id[1] >> ELSE <<>>)
            \o ListAssets(Tail(assets), group_key)

\* lines 166-178 with a plain else in place of the elif of line 169
IdType_ElseGroupKey(ident) ==
    IF StrLen(ident) = AssetIdLen THEN "asset_id" ELSE "group_key"

\* the classification of lines 166-178
IdType(ident) ==
    IF StrLen(ident) = AssetIdLen THEN "asset_id"
    ELSE IF StrLen(ident) = GroupKeyLen THEN "group_key"
    ELSE "invalid"

\* identifiers_to_check of line 83, with the arguments of lines 194-199
IdentifiersToCheck ==
    IF id_type = "asset_id" THEN << identifier >> ELSE asset_ids

\* asset_id == identifiers_to_check[0]
EntryMatches_First(entry, to_check) ==
    Len(to_check) > 0 /\ entry.asset_id = << to_check[1] >>

\* asset_id in identifiers_to_check
EntryMatches(entry, to_check) ==
    \E i \in 1..Len(to_check) : entry.asset_id = << to_check[i] >>

\* line 209 adding the capacity as well
TotalBalance_PlusCapacity(on_chain, off_chain_local) ==
    on_chain + off_chain_local + total_capacity

\* line 209
TotalBalance(on_chain, off_chain_local) == on_chain + off_chain_local

\* sys.exit(1), or an uncaught exception, after printing lines
Abort(lines) ==
    /\ pc' = "exit"
    /\ exit_status' = 1
    /\ stdout' = stdout \o lines

-----------------------------------------------------------------------------
(* The script *)

InitRun ==
    /\ identifier \in Identifiers
    /\ pc = "start"
    /\ data = <<>>
    /\ id_type = ""
    /\ asset_ids = <<>>
    /\ k = 1
    /\ j = 1
    /\ fn_total_balance = 0
    /\ simple_balance = 0
    /\ c = 1
    /\ e = 1
    /\ total_capacity = 0
    /\ total_local_balance = 0
    /\ total_remote_balance = 0
    /\ total_balance = 0
    /\ stdout = <<>>
    /\ exit_status = -1
    /\ registry_calls = 0
    /\ channel_calls = 0
    /\ last_call = "none"

Init ==
    /\ registry \in Registries
    /\ channels \in FewListings
    /\ InitRun

InitChannels ==
    /\ registry \in FewRegistries
    /\ channels \in Listings
    /\ InitRun

\* lines 174-178
ClassifyInvalid ==
    /\ pc = "start"
    /\ IdType(identifier) = "invalid"
    /\ Abort(<< Line("Error: Invalid identifier length", 0) >>)
    /\ UNCHANGED <<identifier, registry, channels, data, id_type, asset_ids, k, j,
                   fn_total_balance, simple_balance, c, e, total_capacity,
                   total_local_balance, total_remote_balance, total_balance,
                   registry_calls, channel_calls, last_call>>

\* lines 166-168, 180
ClassifyAssetId ==
    /\ pc = "start"
    /\ IdType(identifier) = "asset_id"
    /\ id_type' = "asset_id"
    /\ asset_ids' = << identifier >>
    /\ stdout' = Append(stdout, Line("Calculating total balance", 0))
    /\ k' = 1
    /\ pc' = "onchain_loop"
    /\ UNCHANGED <<identifier, registry, channels, data, j, fn_total_balance,
                   simple_balance, c, e, total_capacity, total_local_balance,
                   total_remote_balance, total_balance, exit_status,
                   registry_calls, channel_calls, last_call>>

\* lines 169-173, 180, with the call of list_assets
ClassifyGroupKey ==
    /\ pc = "start"
    /\ IdType(identifier) = "group_key"
    /\ id_type' = "group_key"
    /\ \E outcome \in Outcomes :
         LET r == RunCommand(outcome, registry) IN
         /\ registry_calls' = registry_calls + 1
         /\ last_call' = outcome
         /\ IF r.returned
            THEN /\ asset_ids' = ListAssets(r.data, identifier)
                 /\ stdout' = stdout \o
                        << Line("Found assets linked to group key", Len(asset_ids')),
                           Line("Calculating total balance", 0) >>
                 /\ k' = 1
                 /\ pc' = "onchain_loop"
                 /\ UNCHANGED exit_status
            ELSE /\ Abort(r.printed)
                 /\ UNCHANGED <<asset_ids, k>>
    /\ UNCHANGED <<identifier, registry, channels, data, j, fn_total_balance,
                   simple_balance, c, e, total_capacity, total_local_balance,
                   total_remote_balance, total_balance, channel_calls>>

\* line 191 entering get_onchain_balance, lines 27-40
OnchainCall ==
    /\ pc = "onchain_loop"
    /\ k <= Len(asset_ids)
    /\ \E outcome \in Outcomes :
         LET r == RunCommand(outcome, registry) IN
         /\ registry_calls' = registry_calls + 1
         /\ last_call' = outcome
         /\ IF r.returned
            THEN /\ pc' = "onchain_scan"
                 /\ data' = r.data
                 /\ j' = 1
                 /\ fn_total_balance' = 0
                 /\ UNCHANGED <<stdout, exit_status>>
            ELSE /\ Abort(r.printed)
                 /\ UNCHANGED <<data, j, fn_total_balance>>
    /\ UNCHANGED <<identifier, registry, channels, id_type, asset_ids, k,
                   simple_balance, c, e, total_capacity, total_local_balance,
                   total_remote_balance, total_balance, channel_calls>>

\* one iteration of the loop of lines 43-57
OnchainAsset ==
    /\ pc = "onchain_scan"
    /\ j <= Len(data)
    /\ data[j].asset_group.kind # "null"
    /\ fn_total_balance' =
         IF OnchainMatches(data[j], asset_ids[k])
         THEN fn_total_balance + IntField(data[j].amount)
         ELSE fn_total_balance
    /\ j' = j + 1
    /\ UNCHANGED <<identifier, registry, channels, data, pc, id_type, asset_ids, k,
                   simple_balance, c, e, total_capacity, total_local_balance,
                   total_remote_balance, total_balance, stdout, exit_status,
                   registry_calls, channel_calls, last_call>>

\* lines 45-46 on "asset_group": null: None.get raises AttributeError
OnchainCrash ==
    /\ pc = "onchain_scan"
    /\ j <= Len(data)
    /\ data[j].asset_group.kind = "null"
    /\ Abort(<< Line("Traceback: AttributeError", 0) >>)
    /\ UNCHANGED <<identifier, registry, channels, data, id_type, asset_ids, k, j,
                   fn_total_balance, simple_balance, c, e, total_capacity,
                   total_local_balance, total_remote_balance, total_balance,
                   registry_calls, channel_calls, last_call>>

\* line 191 leaving the loop after the first asset id
OnchainReturn_Break ==
    /\ pc = "onchain_scan"
    /\ j > Len(data)
    /\ stdout' = Append(stdout,
                   IF fn_total_balance > 0
                   THEN Line("Found on-chain balance", 0)
                   ELSE Line("No on-chain balance information found", 0))
    /\ simple_balance' = simple_balance + fn_total_balance
    /\ k' = Len(asset_ids) + 1
    /\ pc' = "onchain_loop"
    /\ UNCHANGED <<identifier, registry, channels, data, id_type, asset_ids, j,
                   fn_total_balance, c, e, total_capacity, total_local_balance,
                   total_remote_balance, total_balance, exit_status,
                   registry_calls, channel_calls, last_call>>

\* line 191 with = in place of +=
OnchainReturn_Assign ==
    /\ pc = "onchain_scan"
    /\ j > Len(data)
    /\ stdout' = Append(stdout,
                   IF fn_total_balance > 0
                   THEN Line("Found on-chain balance", 0)
                   ELSE Line("No on-chain balance information found", 0))
    /\ simple_balance' = fn_total_balance
    /\ k' = k + 1
    /\ pc' = "onchain_loop"
    /\ UNCHANGED <<identifier, registry, channels, data, id_type, asset_ids, j,
                   fn_total_balance, c, e, total_capacity, total_local_balance,
                   total_remote_balance, total_balance, exit_status,
                   registry_calls, channel_calls, last_call>>

\* lines 59-66 and the += of line 191
OnchainReturn ==
    /\ pc = "onchain_scan"
    /\ j > Len(data)
    /\ stdout' = Append(stdout,
                   IF fn_total_balance > 0
                   THEN Line("Found on-chain balance", 0)
                   ELSE Line("No on-chain balance information found", 0))
    /\ simple_balance' = simple_balance + fn_total_balance
    /\ k' = k + 1
    /\ pc' = "onchain_loop"
    /\ UNCHANGED <<identifier, registry, channels, data, id_type, asset_ids, j,
                   fn_total_balance, c, e, total_capacity, total_local_balance,
                   total_remote_balance, total_balance, exit_status,
                   registry_calls, channel_calls, last_call>>

\* lines 194-199 entering get_off_chain_balances, lines 74-83
OffchainCall ==
    /\ pc = "onchain_loop"
    /\ k > Len(asset_ids)
    /\ \E outcome \in Outcomes :
         LET r == RunCommand(outcome, channels) IN
         /\ channel_calls' = channel_calls + 1
         /\ last_call' = outcome
         /\ IF r.returned
            THEN /\ pc' = "offchain_scan"
                 /\ data' = r.data
                 /\ c' = 1
                 /\ e' = 1
                 /\ total_capacity' = 0
                 /\ total_local_balance' = 0
                 /\ total_remote_balance' = 0
                 /\ UNCHANGED <<stdout, exit_status>>
            ELSE /\ Abort(r.printed)
                 /\ UNCHANGED <<data, c, e, total_capacity, total_local_balance,
                                total_remote_balance>>
    /\ UNCHANGED <<identifier, registry, channels, id_type, asset_ids, k, j,
                   fn_total_balance, simple_balance, total_balance,
                   registry_calls>>

\* lines 88-90: a channel without custom_channel_data is skipped
OffchainSkipChannel ==
    /\ pc = "offchain_scan"
    /\ c <= Len(data)
    /\ data[c].custom_channel_data = <<>>
    /\ c' = c + 1
    /\ e' = 1
    /\ UNCHANGED <<identifier, registry, channels, data, pc, id_type, asset_ids, k, j,
                   fn_total_balance, simple_balance, total_capacity,
                   total_local_balance, total_remote_balance, total_balance,
                   stdout, exit_status, registry_calls, channel_calls, last_call>>

\* one iteration of the loop of lines 93-106
OffchainAsset ==
    /\ pc = "offchain_scan"
    /\ c <= Len(data)
    /\ data[c].custom_channel_data # <<>>
    /\ e <= Len(data[c].custom_channel_data[1].assets)
    /\ LET asset == data[c].custom_channel_data[1].assets[e] IN
       IF EntryMatches(asset, IdentifiersToCheck)
       THEN /\ total_capacity' = total_capacity + IntField(asset.capacity)
            /\ total_local_balance' =
                 total_local_balance + IntField(asset.local_balance)
            /\ total_remote_balance' =
                 total_remote_balance + IntField(asset.remote_balance)
       ELSE UNCHANGED <<total_capacity, total_local_balance, total_remote_balance>>
    /\ e' = e + 1
    /\ UNCHANGED <<identifier, registry, channels, data, pc, id_type, asset_ids, k, j,
                   fn_total_balance, simple_balance, c, total_balance, stdout,
                   exit_status, registry_calls, channel_calls, last_call>>

\* the loop of line 93 is exhausted: next channel of the loop of line 86
OffchainNextChannel ==
    /\ pc = "offchain_scan"
    /\ c <= Len(data)
    /\ data[c].custom_channel_data # <<>>
    /\ e > Len(data[c].custom_channel_data[1].assets)
    /\ c' = c + 1
    /\ e' = 1
    /\ UNCHANGED <<identifier, registry, channels, data, pc, id_type, asset_ids, k, j,
                   fn_total_balance, simple_balance, total_capacity,
                   total_local_balance, total_remote_balance, total_balance,
                   stdout, exit_status, registry_calls, channel_calls, last_call>>

\* lines 112, 201-216
Totals ==
    /\ pc = "offchain_scan"
    /\ c > Len(data)
    /\ total_balance' = TotalBalance(simple_balance, total_local_balance)
    /\ stdout' = stdout \o
         << Line("----Totals----", 0),
            Line("On-chain balance", simple_balance),
            Line("Off-chain capacity", total_capacity),
            Line("Off-chain local balance", total_local_balance),
            Line("Total balance", total_balance') >>
    /\ pc' = "done"
    /\ exit_status' = 0
    /\ UNCHANGED <<identifier, registry, channels, data, id_type, asset_ids, k, j,
                   fn_total_balance, simple_balance, c, e, total_capacity,
                   total_local_balance, total_remote_balance, registry_calls,
                   channel_calls, last_call>>

Next ==
    \/ ClassifyInvalid
    \/ ClassifyAssetId
    \/ ClassifyGroupKey
    \/ OnchainCall
    \/ OnchainAsset
    \/ OnchainCrash
    \/ OnchainReturn
    \/ OffchainCall
    \/ OffchainSkipChannel
    \/ OffchainAsset
    \/ OffchainNextChannel
    \/ Totals

Spec == Init /\ [][Next]_vars

SpecChannels == InitChannels /\ [][Next]_vars

-----------------------------------------------------------------------------
(* Quantities the properties are stated with, computed from the input      *)
(* documents alone                                                         *)

Range(s) == { s[i] : i \in DOMAIN s }

\* the resolved target set
Targets == Range(asset_ids)

Within(field, T) == field # <<>> /\ field[1] \in T

AmountOf(field) == IF field = <<>> THEN 0 ELSE field[1]

Owned(rec) == rec.script_key_is_local = <<TRUE>>

Touches(rec, T) ==
    \/ Within(rec.asset_id, T)
    \/ Within(rec.asset_group.raw_group_key, T)
    \/ Within(rec.asset_group.tweaked_group_key, T)

\* sum of amount over the owned records of recs that match a member of T,
\* each record once
RECURSIVE OwnedSum(_, _)
OwnedSum(recs, T) ==
    IF recs = <<>> THEN 0
    ELSE (IF Owned(Head(recs)) /\ Touches(Head(recs), T)
          THEN AmountOf(Head(recs).amount) ELSE 0)
         + OwnedSum(Tail(recs), T)

\* sum of amount over the records of recs that match target t, owned or not
RECURSIVE MatchSum(_, _)
MatchSum(recs, t) ==
    IF recs = <<>> THEN 0
    ELSE (IF Touches(Head(recs), {t}) THEN AmountOf(Head(recs).amount) ELSE 0)
         + MatchSum(Tail(recs), t)

\* MatchSum added up over the entries of a list of targets
RECURSIVE PerTargetSum(_, _)
PerTargetSum(recs, ts) ==
    IF ts = <<>> THEN 0
    ELSE MatchSum(recs, Head(ts)) + PerTargetSum(recs, Tail(ts))

OwnedOnly(recs) == SelectSeq(recs, Owned)

\* every embedded asset entry of a listing, channel after channel
RECURSIVE Embedded(_)
Embedded(listing) ==
    IF listing = <<>> THEN <<>>
    ELSE (IF Head(listing).custom_channel_data = <<>> THEN <<>>
          ELSE Head(listing).custom_channel_data[1].assets)
         \o Embedded(Tail(listing))

\* sum of one field over the entries whose asset id is in T
RECURSIVE EntrySum(_, _, _)
EntrySum(entries, T, field) ==
    IF entries = <<>> THEN 0
    ELSE (IF Within(Head(entries).asset_id, T)
          THEN AmountOf(Head(entries)[field]) ELSE 0)
         + EntrySum(Tail(entries), T, field)

Printed(text) == \E i \in 1..Len(stdout) : stdout[i][1] = text

PrintedValue(text) ==
    LET i == CHOOSE n \in 1..Len(stdout) : stdout[n][1] = text IN stdout[i][2]

Failed == last_call \in {"nonzero_exit", "bad_json"}

ValidLength == StrLen(identifier) \in {64, 66}

\* a group key whose list_assets call has returned
Resolved ==
    /\ StrLen(identifier) = 66
    /\ registry_calls >= 1
    /\ ~(registry_calls = 1 /\ Failed)

-----------------------------------------------------------------------------
(* Properties *)

\* C1: the reported on-chain balance is the sum of amount over the locally
\* owned registry records whose asset id, raw group key or tweaked group key
\* is in the target set, each record counted once.
C1_OnchainCountsEachRecordOnce ==
    pc = "done" => simple_balance = OwnedSum(registry, Targets)

C3_FailedCallAborts ==
    Failed =>
        /\ pc = "exit"
        /\ exit_status = 1
        /\ stdout # <<>>
        /\ stdout[Len(stdout)][1] \in
             {"Error running command", "Error parsing JSON output"}
        /\ ~Printed("----Totals----")
        /\ ~Printed("Total balance")
        /\ ~ENABLED Next

C3_Witness ==
    /\ last_call = "bad_json"
    /\ registry_calls = 2
    /\ pc = "exit"

\* C4: an identifier whose length is neither 64 nor 66 ends the run with the
\* invalid-identifier error and exit status 1, with no external call made
\* and no totals printed.
C4_InvalidIdentifier ==
    ~ValidLength =>
        /\ registry_calls = 0
        /\ channel_calls = 0
        /\ pc \in {"start", "exit"}
        /\ pc = "exit" =>
             /\ exit_status = 1
             /\ stdout = << <<"Error: Invalid identifier length", 0>> >>

C4_Witness == ~ValidLength /\ pc = "exit"

\* C5: the totals report of a successful run shows the on-chain balance, the
\* off-chain capacity, the off-chain local balance, the off-chain remote
\* balance and the combined total.
C5_ReportShowsAllFive ==
    pc = "done" =>
        /\ Printed("On-chain balance")
        /\ Printed("Off-chain capacity")
        /\ Printed("Off-chain local balance")
        /\ Printed("Off-chain remote balance")
        /\ Printed("Total balance")

\* C6: the off-chain capacity, local and remote totals are the sums of
\* capacity, local_balance and remote_balance over every embedded asset
\* entry whose asset id is in the target set, over all channels carrying
\* embedded asset data, without deduplication.
C6_OffchainSums ==
    pc = "done" =>
        /\ total_capacity = EntrySum(Embedded(channels), Targets, "capacity")
        /\ total_local_balance =
             EntrySum(Embedded(channels), Targets, "local_balance")
        /\ total_remote_balance =
             EntrySum(Embedded(channels), Targets, "remote_balance")

C6_Witness ==
    /\ pc = "done"
    /\ Len(channels) = 2
    /\ channels[1] = PlainChannel
    /\ EntryCount(channels[2]) = 2
    /\ \A i \in 1..2 :
         LET entry == channels[2].custom_channel_data[1].assets[i] IN
         Within(entry.asset_id, Targets) /\ entry.capacity # <<>>
    /\ total_capacity > 0

\* C7: the printed combined total is the printed on-chain balance plus the
\* printed off-chain local balance, whatever the capacity and the remote
\* balance are.
C7_CombinedTotal ==
    pc = "done" =>
        /\ PrintedValue("Total balance") =
             PrintedValue("On-chain balance") + PrintedValue("Off-chain local balance")
        /\ PrintedValue("Total balance") = simple_balance + total_local_balance

C7_Witness ==
    /\ pc = "done"
    /\ simple_balance > 0
    /\ total_local_balance > 0
    /\ total_capacity > total_local_balance
    /\ total_remote_balance > 0

\* C8: for a 64-character identifier the target set is {identifier}; for a
\* 66-character identifier it is the set of asset ids of the registry records
\* whose raw or tweaked group key equals the identifier; when it is empty
\* the run does not fail for that and every total is zero.
C8_TargetSet ==
    /\ (StrLen(identifier) = 64 /\ pc # "start") => Targets = {identifier}
    /\ Resolved =>
         Targets = { registry[i].asset_id[1] :
                       i \in { n \in 1..Len(registry) :
                                 /\ registry[n].asset_id # <<>>
                                 /\ \/ registry[n].asset_group.raw_group_key
                                         = <<identifier>>
                                    \/ registry[n].asset_group.tweaked_group_key
                                         = <<identifier>> } }
    /\ (Resolved /\ Targets = {}) =>
         /\ simple_balance = 0
         /\ total_capacity = 0
         /\ total_local_balance = 0
         /\ total_remote_balance = 0
         /\ total_balance = 0
         /\ pc = "exit" => (Failed /\ channel_calls = 1)
         /\ pc = "done" => exit_status = 0

C8_Witness ==
    /\ pc = "done"
    /\ StrLen(identifier) = 66
    /\ Targets = {}
    /\ \E i \in 1..Len(registry) :
         Owned(registry[i]) /\ AmountOf(registry[i].amount) > 0
    /\ Embedded(channels) # <<>>

\* C9: records whose script_key_is_local is false or absent never contribute:
\* the on-chain balance is determined by the locally owned records alone.
C9_NonLocalExcluded ==
    pc = "done" => simple_balance = PerTargetSum(OwnedOnly(registry), asset_ids)

C9_Witness ==
    /\ pc = "done"
    /\ simple_balance > 0
    /\ \E i \in 1..Len(registry) :
         /\ ~Owned(registry[i])
         /\ Touches(registry[i], Targets)
         /\ AmountOf(registry[i].amount) > 0

\* C10: the accumulators start at zero, are never negative, never decrease
\* from one step to the next, and a record whose field is absent adds zero.
C10_Start ==
    pc = "start" =>
        /\ simple_balance = 0
        /\ total_capacity = 0
        /\ total_local_balance = 0
        /\ total_remote_balance = 0

C10_NonNegative ==
    /\ simple_balance >= 0
    /\ fn_total_balance >= 0
    /\ total_capacity >= 0
    /\ total_local_balance >= 0
    /\ total_remote_balance >= 0

C10_Step ==
    /\ simple_balance' >= simple_balance
    /\ total_capacity' >= total_capacity
    /\ total_local_balance' >= total_local_balance
    /\ total_remote_balance' >= total_remote_balance
    /\ (pc = "onchain_scan" /\ pc' = "onchain_scan") =>
         /\ fn_total_balance' >= fn_total_balance
         /\ data[j].amount = <<>> => fn_total_balance' = fn_total_balance
    /\ (pc = "offchain_scan" /\ e' = e + 1) =>
         LET entry == data[c].custom_channel_data[1].assets[e] IN
         /\ entry.capacity = <<>> => total_capacity' = total_capacity
         /\ entry.local_balance = <<>> => total_local_balance' = total_local_balance
         /\ entry.remote_balance = <<>> => total_remote_balance' = total_remote_balance

C10_Accumulators ==
    /\ [](C10_Start /\ C10_NonNegative)
    /\ [][C10_Step]_vars

C10_Witness ==
    /\ pc = "done"
    /\ simple_balance > 0
    /\ total_capacity > 0
    /\ \E i \in 1..Len(registry) :
         /\ registry[i].amount = <<>>
         /\ Owned(registry[i])
         /\ Touches(registry[i], Targets)

====
